---- MODULE Spec2Model ----
(***************************************************************************)
(* Model of pagerank_crawl_and_visualize.py: the URL helpers normalize and *)
(* same_domain, the crawl() loop, and the compute_and_visualize pipeline.  *)
(*                                                                         *)
(* A URL is a sequence of tokens.  The token "http:" is a scheme with its  *)
(* colon; every other token is one character: "/", "#", "[", a host        *)
(* letter ("x", "y") or a path letter ("a", "b", "s").                     *)
(***************************************************************************)
EXTENDS Integers, Sequences, FiniteSets, Bags, TLC

VARIABLES
    pc,         \* position of the program
    root,       \* crawl(): root (the raw argument, then its normal form)
    max_pages,  \* crawl(): max_pages
    to_visit,   \* crawl(): the frontier list
    visited,    \* crawl(): the visited set
    nodes,      \* G: the node set
    edges,      \* G: the edges, as a bag of <<source, target>>
    url,        \* crawl(): the URL popped in this iteration
    links,      \* crawl(): the hrefs of soup.find_all still to be processed
    site,       \* history: what requests.get answered, per URL fetched
    fetchLog,   \* history: the URLs passed to requests.get, in order
    enqLog,     \* history: the URLs put on the frontier, in order
    iterations, \* history: number of loop bodies entered
    skips,      \* history: number of popped URLs discarded as already visited
    iterG,      \* history: G when the current loop body was entered
    pr,         \* compute_and_visualize(): the score map pr
    weight,     \* G: the 'weight' attribute of the edges that have one
    todo,       \* compute_and_visualize(): edges the weighting loop has to do
    writes,     \* history: how often each edge's weight was written
    prCalls,    \* history: number of calls of nx.pagerank
    output,     \* the PDF: "none" or "saved"
    n_in,       \* normalize() on its own: the argument
    n_out,      \* normalize(n_in)
    n_again,    \* normalize(n_out)
    n_more      \* normalize(n_in + "/")

\* the arguments of main()
argVars == <<root, max_pages>>
\* the frame of crawl() and the history of its run
crawlVars == <<to_visit, visited, url, links, site, fetchLog, enqLog, iterations, skips, iterG>>
\* the graph
graphVars == <<nodes, edges>>
\* the frame of compute_and_visualize() and its history
cvVars == <<pr, weight, todo, writes, prCalls, output>>
\* normalize() applied on its own
normVars == <<n_in, n_out, n_again, n_more>>

vars == <<pc, argVars, crawlVars, graphVars, cvVars, normVars>>

----------------------------------------------------------------------------
(* Bounds *)

\* the pages of the site carry at most this many hyperlinks in all
MaxSiteLinks == 4
\* largest page budget tried; budgets range over -1 .. MaxBudget
MaxBudget == 3
\* longest URL string normalize() is applied to on its own
MaxLen == 4

----------------------------------------------------------------------------
(* Sequences of tokens *)

IndexOf(s, t) ==
    IF \E i \in 1..Len(s) : s[i] = t
    THEN CHOOSE i \in 1..Len(s) : s[i] = t /\ \A j \in 1..(i - 1) : s[j] # t
    ELSE 0

Range(s) == {s[i] : i \in 1..Len(s)}

\* a strip that removes one trailing "/" only
RStripOnce(s) ==
    IF s # <<>> /\ s[Len(s)] = "/" THEN SubSeq(s, 1, Len(s) - 1) ELSE s

\* str.rstrip('/'): every trailing "/" is removed
RECURSIVE RStrip(_)
RStrip(s) ==
    IF s # <<>> /\ s[Len(s)] = "/" THEN RStrip(SubSeq(s, 1, Len(s) - 1)) ELSE s

\* urllib.parse: the network location is what follows "//" (after the scheme,
\* if any) up to the next "/" or "#"; without "//" there is none.
Rest(u) == IF u # <<>> /\ u[1] = "http:" THEN Tail(u) ELSE u

RECURSIVE TakeHost(_)
TakeHost(s) ==
    IF s = <<>> \/ s[1] \in {"/", "#"} THEN <<>> ELSE <<s[1]>> \o TakeHost(Tail(s))

HasAuthority(u) == Len(Rest(u)) >= 2 /\ Rest(u)[1] = "/" /\ Rest(u)[2] = "/"

Netloc(u) == IF HasAuthority(u) THEN TakeHost(SubSeq(Rest(u), 3, Len(Rest(u)))) ELSE <<>>

\* urldefrag(url)[0], for a url without scheme or an http:// url with a host.
\* Without "#" the url is returned as it is.  With "#" the url is split and put
\* together again without the fragment; putting it together drops an empty
\* authority ("//" followed by "/" or by nothing) of a url that has no scheme.
Defrag(u) ==
    IF IndexOf(u, "#") = 0 THEN u
    ELSE LET p == SubSeq(u, 1, IndexOf(u, "#") - 1)
         IN  IF Len(p) >= 2 /\ p[1] = "/" /\ p[2] = "/" /\ (Len(p) = 2 \/ p[3] = "/")
             THEN SubSeq(p, 3, Len(p))
             ELSE p

normalize(u) == RStrip(Defrag(u))

\* a domain test that lets every link through
same_domain_any(a, b) == TRUE

same_domain(a, b) == Netloc(a) = Netloc(b)

\* urljoin(base, href) for the two shapes of href the model uses: an absolute
\* URL (returned as it is) and an absolute path (put behind the base's scheme
\* and network location).  An absolute href with "[" in its network location
\* and no "]" makes urljoin raise ValueError("Invalid IPv6 URL").
Malformed(href) == "[" \in Range(Netloc(href))

urljoin(base, href) ==
    IF href # <<>> /\ href[1] = "http:" THEN href
    ELSE <<"http:", "/", "/">> \o Netloc(base) \o href

----------------------------------------------------------------------------
(* The inputs *)

RootArgs == { <<"http:", "/", "/", "x">>, <<"http:", "/", "/", "x", "/">> }

Hrefs == { <<"/", "a">>,
           <<"/", "a", "#", "s">>,
           <<"/", "b", "/">>,
           <<"http:", "/", "/", "y", "/", "a">>,
           <<"http:", "/", "/", "[">> }

LinkLists(k) == UNION { [1..n -> Hrefs] : n \in 0..k }

\* what the fetch of one URL answers: an exception of requests.get / resp.text,
\* or a page with its list of at most k hrefs
Outcomes(k) ==
    { [ok |-> FALSE, hrefs |-> <<>>] } \cup { [ok |-> TRUE, hrefs |-> l] : l \in LinkLists(k) }

Budgets == (0 - 1) .. MaxBudget

----------------------------------------------------------------------------
(* G = nx.DiGraph() *)

\* an add_node that forgets the nodes it had
add_node_alone(ns, n) == {n}

\* G.add_node(n)
add_node(ns, n) == ns \cup {n}

\* add_edge of a multigraph: every call adds one more edge
add_edge_multi(es, u, v) == es (+) SetToBag({<<u, v>>})

\* an add_edge that draws the edge from the link target to the page
add_edge_reversed(es, u, v) ==
    IF BagIn(<<v, u>>, es) THEN es ELSE es (+) SetToBag({<<v, u>>})

\* G.add_edge(u, v): an edge that is there already is kept, not added again
add_edge(es, u, v) ==
    IF BagIn(<<u, v>>, es) THEN es ELSE es (+) SetToBag({<<u, v>>})

EdgeSet == BagToSet(edges)

----------------------------------------------------------------------------
(* main() and crawl() *)

\* a value no URL has
Unset == <<"unset">>

\* the state outside main(): no frame, no graph, no history
IdleProgram ==
    /\ to_visit = <<>>
    /\ visited = {}
    /\ nodes = {}
    /\ edges = EmptyBag
    /\ url = <<>>
    /\ links = <<>>
    /\ site = <<>>
    /\ fetchLog = <<>>
    /\ enqLog = <<>>
    /\ iterations = 0
    /\ skips = 0
    /\ iterG = <<{}, EmptyBag>>
    /\ pr = <<>>
    /\ weight = <<>>
    /\ todo = <<>>
    /\ writes = <<>>
    /\ prCalls = 0
    /\ output = "none"

Init ==
    /\ pc = "main"
    /\ root \in RootArgs
    /\ max_pages \in Budgets
    /\ IdleProgram
    /\ n_in = Unset
    /\ n_out = Unset
    /\ n_again = Unset
    /\ n_more = Unset

\* main() calls crawl(args.root, args.max_pages); crawl's lines before the loop
CrawlEnter ==
    /\ pc = "main"
    /\ root' = normalize(root)
    /\ to_visit' = <<normalize(root)>>
    /\ enqLog' = <<normalize(root)>>
    /\ visited' = {}
    /\ nodes' = {}
    /\ edges' = EmptyBag
    /\ pc' = "loop"
    /\ UNCHANGED <<max_pages, url, links, site, fetchLog, iterations, skips, iterG, cvVars, normVars>>

\* the while condition with the budget test off by one
LoopCondOffByOne == to_visit # <<>> /\ Cardinality(visited) <= max_pages

\* while to_visit and len(visited) < max_pages
LoopCond == to_visit # <<>> /\ Cardinality(visited) < max_pages

\* while ... : url = to_visit.pop(0); if url in visited: continue
Pop ==
    /\ pc = "loop"
    /\ LoopCond
    /\ url' = Head(to_visit)
    /\ to_visit' = Tail(to_visit)
    /\ iterations' = iterations + 1
    /\ IF Head(to_visit) \in visited
       THEN pc' = "loop" /\ skips' = skips + 1
       ELSE pc' = "fetch" /\ skips' = skips
    /\ iterG' = <<nodes, edges>>
    /\ UNCHANGED <<argVars, visited, graphVars, links, site, fetchLog, enqLog, cvVars, normVars>>

\* the hyperlinks on the pages fetched so far
RECURSIVE SiteLinks(_)
SiteLinks(st) ==
    IF DOMAIN st = {} THEN 0
    ELSE LET u == CHOOSE v \in DOMAIN st : TRUE
         IN  Len(st[u].hrefs) + SiteLinks([v \in DOMAIN st \ {u} |-> st[v]])

\* the answers the fetch of u may give: the site answers one URL one way
Answers(u) ==
    IF u \in DOMAIN site THEN {site[u]} ELSE Outcomes(MaxSiteLinks - SiteLinks(site))

\* the except branch without its visited.add(url)
FetchFailForgotten(vs, u) == vs

\* except branch: visited.add(url); continue
FetchFailVisited(vs, u) == vs \cup {u}

FetchFail ==
    /\ pc = "fetch"
    /\ \E o \in Answers(url) :
        /\ ~o.ok
        /\ site' = (url :> o) @@ site
    /\ fetchLog' = Append(fetchLog, url)
    /\ visited' = FetchFailVisited(visited, url)
    /\ pc' = "loop"
    /\ UNCHANGED <<argVars, to_visit, graphVars, url, links, enqLog, iterations, skips, iterG, cvVars, normVars>>

\* the success branch without its G.add_node(url)
FetchOkNoNode ==
    /\ pc = "fetch"
    /\ \E o \in Answers(url) :
        /\ o.ok
        /\ site' = (url :> o) @@ site
        /\ links' = o.hrefs
    /\ fetchLog' = Append(fetchLog, url)
    /\ visited' = visited \cup {url}
    /\ pc' = "links"
    /\ UNCHANGED <<argVars, to_visit, graphVars, url, enqLog, iterations, skips, iterG, cvVars, normVars>>

\* visited.add(url); soup = ...; G.add_node(url); the for loop starts
FetchOk ==
    /\ pc = "fetch"
    /\ \E o \in Answers(url) :
        /\ o.ok
        /\ site' = (url :> o) @@ site
        /\ links' = o.hrefs
    /\ fetchLog' = Append(fetchLog, url)
    /\ visited' = visited \cup {url}
    /\ nodes' = add_node(nodes, url)
    /\ pc' = "links"
    /\ UNCHANGED <<argVars, to_visit, edges, url, enqLog, iterations, skips, iterG, cvVars, normVars>>

\* urljoin raises inside the for loop: nothing catches it, crawl() and main()
\* end with the exception
LinkRaise ==
    /\ pc = "links"
    /\ links # <<>>
    /\ Malformed(Head(links))
    /\ pc' = "raised"
    /\ UNCHANGED <<argVars, crawlVars, graphVars, cvVars, normVars>>

\* the check against visited alone, the frontier's own contents not looked at
EnqueueNoFrontierCheck(tv, vs, full) ==
    IF full \notin vs THEN Append(tv, full) ELSE tv

\* the frontier check with the URL put at the head of the list
EnqueueFront(tv, vs, full) ==
    IF full \notin vs /\ full \notin Range(tv) THEN <<full>> \o tv ELSE tv

\* if full not in visited and full not in to_visit: to_visit.append(full)
Enqueue(tv, vs, full) ==
    IF full \notin vs /\ full \notin Range(tv) THEN Append(tv, full) ELSE tv

\* one pass of the for loop body
LinkStep ==
    /\ pc = "links"
    /\ links # <<>>
    /\ ~Malformed(Head(links))
    /\ LET full == normalize(urljoin(url, Head(links)))
       IN  IF same_domain(root, full)
           THEN /\ nodes' = add_node(nodes, full)
                /\ edges' = add_edge(edges, url, full)
                /\ to_visit' = Enqueue(to_visit, visited, full)
                /\ enqLog' = IF Enqueue(to_visit, visited, full) = to_visit
                             THEN enqLog ELSE Append(enqLog, full)
           ELSE UNCHANGED <<nodes, edges, to_visit, enqLog>>
    /\ links' = Tail(links)
    /\ UNCHANGED <<pc, argVars, visited, url, site, fetchLog, iterations, skips, iterG, cvVars, normVars>>

\* the for loop is exhausted: back to the while condition
LinksDone ==
    /\ pc = "links"
    /\ links = <<>>
    /\ pc' = "loop"
    /\ UNCHANGED <<argVars, crawlVars, graphVars, cvVars, normVars>>

\* the while condition is false: return G
CrawlReturn ==
    /\ pc = "loop"
    /\ ~LoopCond
    /\ pc' = "returned"
    /\ UNCHANGED <<argVars, crawlVars, graphVars, cvVars, normVars>>

----------------------------------------------------------------------------
(* nx.pagerank(G, alpha=0.85), in fixed point: a score s stands for s / PrScale *)

\* the fixed-point unit: fine enough that rounding stays well below 1.0e-6
PrScale == 100000000
\* alpha = 0.85, in hundredths
alpha_pct == 85
\* networkx defaults: max_iter = 100, tol = 1.0e-6
max_iter == 100
tol_scaled == PrScale \div 1000000

RECURSIVE SumOver(_, _)
SumOver(f, S) ==
    IF S = {} THEN 0
    ELSE LET n == CHOOSE m \in S : TRUE IN f[n] + SumOver(f, S \ {n})

AbsVal(i) == IF i < 0 THEN 0 - i ELSE i

OutDegree(es, n) == Cardinality({e \in es : e[1] = n})

\* alpha * y, without a product beyond 32 bits
Damped(y) == y - ((100 - alpha_pct) * y) \div 100

\* a pass of the power iteration that drops the score of the nodes without
\* out-edges instead of spreading it
PrStepLeaky(ns, es, xlast) ==
    LET N == Cardinality(ns)
        share == [m \in ns |-> IF OutDegree(es, m) = 0 THEN 0
                               ELSE xlast[m] \div OutDegree(es, m)]
    IN  [n \in ns |->
            Damped(SumOver(share, {m \in ns : <<m, n>> \in es}))
            + ((100 - alpha_pct) * PrScale) \div (100 * N)]

\* one pass of the power iteration: every edge out of m carries
\* xlast[m] / out_degree(m), the nodes without out-edges spread their score over
\* all nodes
PrStep(ns, es, xlast) ==
    LET N == Cardinality(ns)
        dangling == {n \in ns : OutDegree(es, n) = 0}
        danglesum == SumOver(xlast, dangling)
        share == [m \in ns |-> IF OutDegree(es, m) = 0 THEN 0
                               ELSE xlast[m] \div OutDegree(es, m)]
    IN  [n \in ns |->
            Damped(SumOver(share, {m \in ns : <<m, n>> \in es}) + danglesum \div N)
            + ((100 - alpha_pct) * PrScale) \div (100 * N)]

PrErr(ns, x, xlast) == SumOver([n \in ns |-> AbsVal(x[n] - xlast[n])], ns)

\* the loop: at most max_iter passes, it ends with the first pass that moves
\* the scores by less than N * tol; otherwise PowerIterationFailedConvergence
RECURSIVE PrLoop(_, _, _, _)
PrLoop(ns, es, xlast, k) ==
    IF k = max_iter THEN [converged |-> FALSE, x |-> xlast]
    ELSE LET x == PrStep(ns, es, xlast)
         IN  \* (a pass that moves nothing has error 0)
             IF x = xlast \/ PrErr(ns, x, xlast) < Cardinality(ns) * tol_scaled
             THEN [converged |-> TRUE, x |-> x]
             ELSE PrLoop(ns, es, x, k + 1)

pagerank(ns, es) ==
    IF Cardinality(ns) = 0 THEN [converged |-> TRUE, x |-> <<>>]
    ELSE PrLoop(ns, es, [n \in ns |-> PrScale \div Cardinality(ns)], 0)

----------------------------------------------------------------------------
(* main() after crawl(), and compute_and_visualize() *)

\* G.edges(): every edge once.  networkx yields them in insertion order; the
\* model fixes some order, nothing depends on which.
RECURSIVE EdgeList(_)
EdgeList(es) ==
    IF es = {} THEN <<>>
    ELSE LET e == CHOOSE d \in es : TRUE IN <<e>> \o EdgeList(es \ {e})

\* an emptiness test that never finds the graph empty
GraphEmptyNever(ns) == FALSE

\* len(G) == 0
GraphEmpty(ns) == Cardinality(ns) = 0

\* pr.get(u, 0.0)
PrGet(p, u) == IF u \in DOMAIN p THEN p[u] ELSE 0

\* main(): G = crawl(...) has returned; print the summary and call
\* compute_and_visualize(G, args.output).  The frame of crawl() is gone.
CVEnter ==
    /\ pc = "returned"
    /\ pc' = "cv"
    /\ to_visit' = <<>>
    /\ visited' = {}
    /\ url' = <<>>
    /\ links' = <<>>
    /\ site' = <<>>
    /\ fetchLog' = <<>>
    /\ enqLog' = <<>>
    /\ iterations' = 0
    /\ skips' = 0
    /\ iterG' = <<{}, EmptyBag>>
    /\ UNCHANGED <<argVars, graphVars, cvVars, normVars>>

\* if len(G) == 0: print(...); return
CVEmpty ==
    /\ pc = "cv"
    /\ GraphEmpty(nodes)
    /\ pc' = "done"
    /\ UNCHANGED <<argVars, crawlVars, graphVars, cvVars, normVars>>

\* pr = nx.pagerank(G, alpha=0.85)
Pagerank ==
    /\ pc = "cv"
    /\ ~GraphEmpty(nodes)
    /\ prCalls' = prCalls + 1
    /\ LET res == pagerank(nodes, EdgeSet)
       IN  IF res.converged
           THEN /\ pr' = res.x
                /\ todo' = EdgeList(EdgeSet)
                /\ pc' = "weights"
           ELSE /\ pc' = "raised"
                /\ UNCHANGED <<pr, todo>>
    /\ UNCHANGED <<argVars, crawlVars, graphVars, weight, writes, output, normVars>>

\* a weighting by the score of the edge's target
EdgeWeightOfTarget(p, u, v) == PrGet(p, v)

\* the weight one pass of the weighting loop gives the edge <<u, v>>
EdgeWeight(p, u, v) == PrGet(p, u)

\* for u, v in G.edges(): G[u][v]['weight'] = pr.get(u, 0.0)
WeightStep ==
    /\ pc = "weights"
    /\ todo # <<>>
    /\ LET e == Head(todo)
       IN  /\ weight' = (e :> EdgeWeight(pr, e[1], e[2])) @@ weight
           /\ writes' = (e :> (IF e \in DOMAIN writes THEN writes[e] ELSE 0) + 1) @@ writes
    /\ todo' = Tail(todo)
    /\ UNCHANGED <<pc, argVars, crawlVars, graphVars, pr, prCalls, output, normVars>>

\* the weighting loop is exhausted
WeightsDone ==
    /\ pc = "weights"
    /\ todo = <<>>
    /\ pc' = "draw"
    /\ UNCHANGED <<argVars, crawlVars, graphVars, cvVars, normVars>>

\* the visualization: it reads pr[n] of every node and G[u][v]['weight'] of
\* every edge (a missing one is a KeyError), draws, and saves the PDF
Visualize ==
    /\ pc = "draw"
    /\ IF nodes \subseteq DOMAIN pr /\ EdgeSet \subseteq DOMAIN weight
       THEN pc' = "done" /\ output' = "saved"
       ELSE pc' = "raised" /\ output' = output
    /\ UNCHANGED <<argVars, crawlVars, graphVars, pr, weight, todo, writes, prCalls, normVars>>

Next ==
    \/ CrawlEnter
    \/ Pop
    \/ FetchFail
    \/ FetchOk
    \/ LinkRaise
    \/ LinkStep
    \/ LinksDone
    \/ CrawlReturn
    \/ CVEnter
    \/ CVEmpty
    \/ Pagerank
    \/ WeightStep
    \/ WeightsDone
    \/ Visualize

Spec == Init /\ [][Next]_vars

----------------------------------------------------------------------------
(* normalize() on its own, over every string of at most MaxLen tokens *)

Alphabet == {"a", "/", "#"}

Strings == UNION { [1..n -> Alphabet] : n \in 0..MaxLen }

InitNorm ==
    /\ pc = "norm"
    /\ root = <<>>
    /\ max_pages = 0
    /\ IdleProgram
    /\ n_in \in Strings
    /\ n_out = Unset
    /\ n_again = Unset
    /\ n_more = Unset

\* n_out = normalize(n_in)
Normalize ==
    /\ pc = "norm"
    /\ n_out' = normalize(n_in)
    /\ pc' = "normed"
    /\ UNCHANGED <<argVars, crawlVars, graphVars, cvVars, n_in, n_again, n_more>>

\* n_again = normalize(n_out); n_more = normalize(n_in + "/")
NormalizeAgain ==
    /\ pc = "normed"
    /\ n_again' = normalize(n_out)
    /\ n_more' = normalize(Append(n_in, "/"))
    /\ pc' = "renormed"
    /\ UNCHANGED <<argVars, crawlVars, graphVars, cvVars, n_in, n_out>>

NextNorm ==
    \/ Normalize
    \/ NormalizeAgain

SpecNorm == InitNorm /\ [][NextNorm]_vars

----------------------------------------------------------------------------
(* What the recorded site makes reachable *)

CrawlPcs == {"loop", "fetch", "links", "returned", "raised"}

\* the in-domain pages a successfully fetched page u links to
Targets(u) ==
    IF u \in DOMAIN site /\ site[u].ok
    THEN { full \in { normalize(urljoin(u, h)) :
                        h \in { g \in Range(site[u].hrefs) : ~Malformed(g) } } :
             Netloc(full) = Netloc(root) }
    ELSE {}

RECURSIVE ReachFrom(_)
ReachFrom(S) ==
    LET T == S \cup UNION { Targets(u) : u \in S }
    IN  IF T = S THEN S ELSE ReachFrom(T)

\* the URLs reachable from the root through links of successfully fetched pages
Reachable == ReachFrom({root})

HasDuplicates(s) == \E i, j \in 1..Len(s) : i < j /\ s[i] = s[j]

----------------------------------------------------------------------------
(* Claims *)

\* C1: with a page budget max_pages = k (k >= 0; the contract's budgets are the
\* positive ones), visited never holds more than k URLs in any state of
\* crawl(), and when crawl() returns with at least k URLs reachable from the
\* root, visited holds exactly k.
C1_BudgetRespected ==
    (pc \in CrawlPcs /\ max_pages >= 0) =>
        /\ Cardinality(visited) <= max_pages
        /\ (pc = "returned" /\ Cardinality(Reachable) >= max_pages)
              => Cardinality(visited) = max_pages

\* the budget cut a crawl short: more pages were reachable than were visited
C1_Witness ==
    /\ pc = "returned"
    /\ max_pages >= 1
    /\ Cardinality(Reachable) > max_pages
    /\ Cardinality(visited) = max_pages
    /\ to_visit # <<>>

\* the fetch-and-extract step of the page failed: requests.get raised, or
\* resolving one of its hyperlinks raises
ExtractFails(o) == ~o.ok \/ \E i \in 1..Len(o.hrefs) : Malformed(o.hrefs[i])

\* the loop body that fetched url has come to its end
BodyEnded ==
    /\ pc \in {"loop", "returned", "raised"}
    /\ fetchLog # <<>>
    /\ fetchLog[Len(fetchLog)] = url

\* C2: when the fetch-and-extract step of the dequeued URL fails with a
\* transport or parse error (an error while resolving a hyperlink included),
\* crawl() does not fail, the URL is in visited, and the loop body has added no
\* node and no edge.
C2_FailureIsSkipped ==
    (BodyEnded /\ url \in DOMAIN site /\ ExtractFails(site[url])) =>
        /\ pc # "raised"
        /\ url \in visited
        /\ <<nodes, edges>> = iterG

\* C3: within one crawl() run no URL is passed to the fetch step twice,
\* whether its fetch succeeded or failed, and no URL in visited is fetched.
C3_FetchedAtMostOnce ==
    /\ ~HasDuplicates(fetchLog)
    /\ pc = "fetch" => url \notin visited

\* a page whose fetch failed is linked again from a page fetched after it
C3_Witness ==
    /\ pc = "returned"
    /\ \E i, j \in 1..Len(fetchLog) :
          /\ i < j
          /\ ~site[fetchLog[i]].ok
          /\ fetchLog[i] \in Targets(fetchLog[j])

\* C4: the graph holds every edge once: several hyperlinks of a page with the
\* same resolved and normalized target, or a later add_edge of the same pair,
\* leave exactly one edge.
C4_NoDuplicateEdges ==
    \A e \in BagToSet(edges) : CopiesIn(e, edges) = 1

\* a page with two different hrefs (/a and /a#s) that mean the same URL has
\* been processed, and its edge is there
C4_Witness ==
    /\ pc = "returned"
    /\ \E u \in DOMAIN site : \E i, j \in 1..Len(site[u].hrefs) :
          LET h == site[u].hrefs
          IN  /\ h[i] # h[j]
              /\ ~Malformed(h[i]) /\ ~Malformed(h[j])
              /\ normalize(urljoin(u, h[i])) = normalize(urljoin(u, h[j]))
              /\ BagIn(<<u, normalize(urljoin(u, h[i]))>>, edges)

InRootDomain(u) == Netloc(u) = Netloc(root)

\* C5: in every state of crawl() every node, every edge endpoint and every
\* frontier entry has the network location of the normalized root; a link
\* whose normalized target has another one leaves no node, edge or entry.
C5_DomainFiltering ==
    pc \in CrawlPcs =>
        /\ \A n \in nodes : InRootDomain(n)
        /\ \A e \in BagToSet(edges) : InRootDomain(e[1]) /\ InRootDomain(e[2])
        /\ \A i \in 1..Len(to_visit) : InRootDomain(to_visit[i])

\* a fetched page carried an off-domain link, and the crawl went on to its end
C5_Witness ==
    /\ pc = "returned"
    /\ nodes # {}
    /\ \E u \in DOMAIN site : \E i \in 1..Len(site[u].hrefs) :
          /\ ~Malformed(site[u].hrefs[i])
          /\ ~InRootDomain(normalize(urljoin(u, site[u].hrefs[i])))

IsPrefix(s, t) == Len(s) <= Len(t) /\ SubSeq(t, 1, Len(s)) = s

Normed == pc \in {"normed", "renormed"}

\* C6 as stated: normalize(u) is u without its fragment and without exactly
\* one trailing "/", so that of two or more trailing slashes all but one stay.
C6_StripsExactlyOne ==
    Normed => n_out = RStripOnce(Defrag(n_in))

\* C6, amended: normalize(u) is urldefrag's URL (u without its fragment)
\* without any of its trailing "/": what is cut off is nothing but slashes and
\* the result ends in none, so URLs that differ only in the number of trailing
\* slashes normalize to the same string.
C6_StripsEveryTrailingSlash ==
    /\ Normed =>
          /\ "#" \notin Range(n_out)
          /\ IsPrefix(n_out, Defrag(n_in))
          /\ \A i \in (Len(n_out) + 1)..Len(Defrag(n_in)) : Defrag(n_in)[i] = "/"
          /\ n_out = <<>> \/ n_out[Len(n_out)] # "/"
          /\ "#" \notin Range(n_in) => IsPrefix(n_out, n_in)
    /\ (pc = "renormed" /\ "#" \notin Range(n_in)) => n_more = n_out

\* a URL with two or more trailing slashes has been normalized: none is left
C6_Witness ==
    /\ pc = "renormed"
    /\ Len(n_in) >= 3
    /\ n_in[1] = "a"
    /\ n_in[Len(n_in)] = "/" /\ n_in[Len(n_in) - 1] = "/"
    /\ "#" \notin Range(n_in)
    /\ Len(n_out) <= Len(n_in) - 2
    /\ n_more = n_out

\* C7: normalize is idempotent, normalize(normalize(u)) = normalize(u).
C7_Idempotent ==
    pc = "renormed" => n_again = n_out

\* a URL with a fragment and slashes before it was normalized twice
C7_Witness ==
    /\ pc = "renormed"
    /\ "#" \in Range(n_in)
    /\ Len(n_in) - Len(n_out) >= 3
    /\ n_out # <<>>
    /\ n_again = n_out

\* C8: on a non-empty graph every edge <<u, v>> ends with the weight pr[u];
\* its weight is written once, after nx.pagerank has returned and before the
\* visualization reads it; the weighting loop changes neither nodes nor edges.
C8_WeightsState ==
    /\ DOMAIN weight # {} => (prCalls = 1 /\ pc \in {"weights", "draw", "done"})
    /\ \A e \in DOMAIN writes : writes[e] = 1 /\ e \in DOMAIN weight
    /\ DOMAIN weight \subseteq EdgeSet
    /\ \A e \in DOMAIN weight : e[1] \in DOMAIN pr /\ weight[e] = pr[e[1]]
    /\ (pc \in {"draw", "done"} /\ nodes # {}) =>
          /\ DOMAIN weight = EdgeSet
          /\ DOMAIN writes = EdgeSet
          /\ DOMAIN pr = nodes
    /\ output = "saved" => DOMAIN weight = EdgeSet

C8_WeightsFrame ==
    (pc \in {"weights", "draw"}) => (nodes' = nodes /\ edges' = edges /\ pr' = pr)

C8_EdgeWeights == []C8_WeightsState /\ [][C8_WeightsFrame]_vars

\* the pipeline is through, with two out-edges of one node that carry the same
\* weight and an edge of another node that carries another one
C8_Witness ==
    /\ pc = "done"
    /\ output = "saved"
    /\ \E e, f, g \in DOMAIN weight :
          /\ e[1] = f[1] /\ e[2] # f[2] /\ weight[e] = weight[f]
          /\ g[1] # e[1] /\ weight[g] # weight[e]
          /\ weight[g] # pr[g[2]]

\* C9: when the crawled graph has no node, nx.pagerank is never called, no
\* weight is written, nothing is saved, and the run ends without an exception.
C9_EmptyGraphNoOp ==
    (pc \in {"returned", "cv", "weights", "draw", "done", "raised"} /\ nodes = {}) =>
        /\ pc \in {"returned", "cv", "done"}
        /\ prCalls = 0
        /\ DOMAIN weight = {}
        /\ DOMAIN writes = {}
        /\ output = "none"

\* a run with a valid budget whose crawl gave an empty graph has ended
C9_Witness ==
    /\ pc = "done"
    /\ max_pages >= 1
    /\ nodes = {}
    /\ prCalls = 0
    /\ output = "none"

\* C10: a non-positive page budget is rejected before any crawling begins:
\* crawl() is never entered with it and nothing is fetched.
C10_InvalidBudgetRejected ==
    max_pages <= 0 => (pc = "main" /\ fetchLog = <<>>)

\* crawl() has ended with an exception (nx.pagerank was not reached)
CrawlRaised == pc = "raised" /\ prCalls = 0

\* C11: crawl() ends, for a budget max_pages >= 0, only by returning the graph
\* with the frontier empty or with max_pages URLs in visited, never with an
\* error.
C11_EndsNormally ==
    max_pages >= 0 =>
        /\ ~CrawlRaised
        /\ pc = "returned" => (to_visit = <<>> \/ Cardinality(visited) = max_pages)

\* 1.0e-6 in fixed point
SumTolerance == PrScale \div 1000000

\* C12: the score map of a non-empty graph has one entry per node, none
\* negative, and the entries sum to 1.0 within 1.0e-6, also when nodes without
\* out-edges exist.
C12_MassConserved ==
    DOMAIN pr # {} =>
        /\ DOMAIN pr = nodes
        /\ \A n \in nodes : pr[n] >= 0
        /\ AbsVal(SumOver(pr, nodes) - PrScale) <= SumTolerance

\* the scores of a chain a -> b -> c, whose last node has no out-edge
C12_Witness ==
    /\ pc = "done"
    /\ \E a, b, c \in nodes :
          /\ Cardinality({a, b, c}) = 3
          /\ nodes = {a, b, c}
          /\ EdgeSet = {<<a, b>>, <<b, c>>}
          /\ DOMAIN pr = nodes
          /\ pr[c] > pr[b] /\ pr[b] > pr[a]

\* the link distances on the recorded site: the URLs of layer are d links away
\* from the root, those of seen are nearer
RECURSIVE DistFrom(_, _, _)
DistFrom(seen, layer, d) ==
    IF layer = {} THEN <<>>
    ELSE LET next == (UNION { Targets(v) : v \in layer }) \ (seen \cup layer)
         IN  [u \in layer |-> d] @@ DistFrom(seen \cup layer, next, d + 1)

\* the number of links from the root to every URL it reaches
Dists == DistFrom({}, {root}, 0)

\* the number of links from the root to u (-1: no path)
Dist(u) == IF u \in DOMAIN Dists THEN Dists[u] ELSE 0 - 1

\* the places of u in a log
Places(log, u) == {i \in 1..Len(log) : log[i] = u}

\* C13: the root is the first URL fetched; of two fetched URLs the one appended
\* to the frontier first is fetched first; a page's for loop is over before
\* the next URL is dequeued; the fetched URLs are in non-decreasing link
\* distance from the root.
C13_FifoOrder ==
    pc \in CrawlPcs =>
        /\ fetchLog # <<>> => fetchLog[1] = root
        /\ \A i, j \in 1..Len(enqLog) :
              (i < j /\ Places(fetchLog, enqLog[i]) # {} /\ Places(fetchLog, enqLog[j]) # {})
                  => \A k \in Places(fetchLog, enqLog[i]) :
                        \A l \in Places(fetchLog, enqLog[j]) : k < l
        /\ pc \in {"loop", "fetch"} => links = <<>>
        \* the log and the site change only at a fetch: the distances are
        \* compared when the loop body of that fetch has ended
        /\ pc \in {"loop", "returned", "raised"} =>
              LET dists == Dists
              IN  /\ Range(fetchLog) \subseteq DOMAIN dists
                  /\ \A k, l \in 1..Len(fetchLog) :
                        k < l => dists[fetchLog[k]] <= dists[fetchLog[l]]

\* the root page put two URLs on the frontier, and both were fetched, in the
\* order they were put there
C13_Witness ==
    /\ pc = "returned"
    /\ Len(fetchLog) = 3
    /\ Len(enqLog) >= 3
    /\ fetchLog[2] = enqLog[2]
    /\ fetchLog[3] = enqLog[3]
    /\ Dist(fetchLog[2]) = 1
    /\ Dist(fetchLog[3]) = 1

\* the frontier has no URL twice and none that is in visited
FrontierClean ==
    /\ ~HasDuplicates(to_visit)
    /\ Range(to_visit) \cap visited = {}

\* a step of the for loop leaves the frontier alone or appends one URL, at the
\* tail, that was neither in visited nor in the frontier
AppendsOnlyNew ==
    (pc = "links" /\ pc' = "links" /\ to_visit' # to_visit) =>
        \E full \in Range(to_visit') :
            /\ to_visit' = Append(to_visit, full)
            /\ full \notin visited
            /\ full \notin Range(to_visit)

\* C14: whenever the loop condition is evaluated the frontier has no URL twice
\* and no URL of visited; a link is appended to the tail of the frontier only
\* if it is neither in visited nor in the frontier.
C14_FrontierDeduplicated ==
    /\ [](pc = "loop" => FrontierClean)
    /\ [][AppendsOnlyNew]_vars

\* the loop condition is evaluated with a URL waiting, after a page that links
\* twice to that URL and once to a visited one
C14_Witness ==
    /\ pc = "loop"
    /\ to_visit # <<>>
    /\ \E u \in visited :
          /\ u \in DOMAIN site
          /\ site[u].ok
          /\ Targets(u) \cap visited # {}
          /\ \E i, j \in 1..Len(site[u].hrefs) :
                /\ i < j
                /\ ~Malformed(site[u].hrefs[i]) /\ ~Malformed(site[u].hrefs[j])
                /\ normalize(urljoin(u, site[u].hrefs[i])) = to_visit[1]
                /\ normalize(urljoin(u, site[u].hrefs[j])) = to_visit[1]

\* the pages whose fetch succeeded
FetchedOk == {u \in visited : u \in DOMAIN site /\ site[u].ok}

\* crawl() has returned because the frontier ran empty, with budget left
FrontierExhausted ==
    /\ pc = "returned"
    /\ to_visit = <<>>
    /\ Cardinality(visited) < max_pages

\* C15: when crawl() returns with the frontier empty and the budget not
\* exhausted, visited is the set of URLs reachable from the root through
\* in-domain links of successfully fetched pages, every successfully fetched
\* page is a node, and the edges are exactly the pairs (u, v) with u fetched
\* successfully and v a normalized in-domain link target of u.
C15_FullLinkStructure ==
    FrontierExhausted =>
        /\ visited = Reachable
        /\ FetchedOk \subseteq nodes
        /\ EdgeSet = UNION { {<<u, v>> : v \in Targets(u)} : u \in FetchedOk }

\* a site of two pages crawled to its end with budget left: the root links to
\* a page that has no links of its own
C15_Witness ==
    /\ FrontierExhausted
    /\ Cardinality(FetchedOk) = 2
    /\ EdgeSet # {}
    /\ \E u \in FetchedOk : Targets(u) = {} /\ u \in nodes

\* crawl() is running: from its first loop condition to its return or raise
Crawling == pc \in {"loop", "fetch", "links"}

\* crawl() has returned G to main()
AfterCrawl == pc \in {"returned", "cv", "weights", "draw", "done"}

GrowsOnly ==
    /\ Crawling =>
          /\ visited \subseteq visited'
          /\ nodes \subseteq nodes'
          /\ edges \sqsubseteq edges'
    /\ AfterCrawl =>
          /\ nodes' = nodes
          /\ edges' = edges

\* C17: no step of crawl() removes a URL from visited or a node or an edge
\* from the graph, and no step after the return of crawl() creates (or
\* removes) a node or an edge.
C17_Monotone == [][GrowsOnly]_vars

\* the whole program has run on a graph of three nodes and at least two edges
C17_Witness ==
    /\ pc = "done"
    /\ output = "saved"
    /\ Cardinality(nodes) = 3
    /\ Cardinality(EdgeSet) >= 2
    /\ DOMAIN weight = EdgeSet

\* C18: the URL at the head of the frontier is never in visited, so the
\* discard of lines 41-42 never fires; every loop body makes one fetch and adds
\* one URL to visited, and when crawl() ends the number of loop bodies entered
\* is the size of visited.
C18_DiscardIsDead ==
    pc \in CrawlPcs =>
        /\ skips = 0
        /\ (pc = "loop" /\ to_visit # <<>>) => Head(to_visit) \notin visited
        /\ pc = "fetch" => (url \notin visited /\ iterations = Cardinality(visited) + 1)
        /\ Len(fetchLog) = Cardinality(visited)
        /\ pc \in {"loop", "links", "returned", "raised"} => iterations = Cardinality(visited)

\* three loop bodies, one of them on a page with a link to a URL that was in
\* visited by then
C18_Witness ==
    /\ pc = "returned"
    /\ iterations = 3
    /\ Cardinality(visited) = 3
    /\ \E i, j \in 1..Len(fetchLog) :
          /\ i <= j
          /\ fetchLog[j] \in FetchedOk
          /\ fetchLog[i] \in Targets(fetchLog[j])

\* the nodes with an outgoing edge
EdgeSources == {e[1] : e \in EdgeSet}

\* the URLs whose fetch failed
FetchedFailed == {u \in visited : u \in DOMAIN site /\ ~site[u].ok}

\* C19: in every state of crawl() every edge leaves a URL of visited whose
\* fetch succeeded, so (for a budget max_pages >= 0) at most max_pages nodes
\* have an outgoing edge; a URL whose fetch failed has no outgoing edge, and in
\* the returned graph it is a node with an incoming edge from every
\* successfully fetched page that links to it.
C19_EdgeSources ==
    pc \in CrawlPcs =>
        /\ EdgeSources \subseteq FetchedOk
        /\ max_pages >= 0 => Cardinality(EdgeSources) <= max_pages
        /\ EdgeSources \cap FetchedFailed = {}
        /\ pc = "returned" =>
              \A u \in FetchedFailed : \A v \in FetchedOk :
                  u \in Targets(v) => (u \in nodes /\ <<v, u>> \in EdgeSet)

\* a returned graph with more nodes than max_pages, one of them a URL whose
\* fetch failed and that a fetched page links to
C19_Witness ==
    /\ pc = "returned"
    /\ max_pages = 2
    /\ Cardinality(nodes) > max_pages
    /\ Cardinality(EdgeSources) = 1
    /\ \E u \in FetchedFailed : \E v \in FetchedOk :
          u \in Targets(v) /\ u \in nodes /\ <<v, u>> \in EdgeSet

====
